---- MODULE Spec2Model ----
(***************************************************************************)
(* Model of the App Store preview job: ScreenshotService                   *)
(* (utils/screenshotService.ts), IconGenerationService                     *)
(* (utils/iconGenerationService.ts) and runAppStorePreviewJob              *)
(* (kernel/appStorePreview.ts).                                            *)
(*                                                                         *)
(* Every awaited call on the browser engine, the image service or the      *)
(* filesystem is a step that either resolves or rejects.                   *)
(***************************************************************************)
EXTENDS Integers, Sequences, FiniteSets, TLC

(***************************************************************************)
(* Values.  An absent string is Undefined; an optional array is None or    *)
(* Some(array), so that an empty array differs from an absent one.         *)
(***************************************************************************)
Undefined == "undefined"

None == <<>>

Some(x) == <<x>>

IsSome(o) == Len(o) = 1

Get(o) == o[1]

\* JavaScript truthiness of a string or undefined: "" and undefined are falsy.
TruthyStr(s) == s # Undefined /\ s # ""

\* a || b on strings.
OrStr(a, b) == IF TruthyStr(a) THEN a ELSE b

\* a || b on optional arrays: every array, the empty one included, is truthy.
OrArr(a, b) == IF IsSome(a) THEN a ELSE b

(***************************************************************************)
(* Bounds of the model.                                                    *)
(***************************************************************************)
\* Longest explicit device list a caller passes.
MaxDevLen == 2

\* Longest keyword list given to buildPrompt.
MaxKeywords == 2

\* Longest styles list given to generateIconVariations.
MaxStyles == 3

\* Most calls an outside caller makes on one service.
MaxCalls == 4

(***************************************************************************)
(* Device catalog.                                                         *)
(***************************************************************************)
DeviceKeys ==
  << "iPhone 6.7\"", "iPhone 6.5\"", "iPhone 5.5\"", "iPad Pro 12.9\"", "iPad Pro 11\"" >>

DeviceType == { DeviceKeys[k] : k \in 1..Len(DeviceKeys) }

APP_STORE_DEVICES ==
  [ d \in DeviceType |->
      CASE d = "iPhone 6.7\""    -> [width |-> 1290, height |-> 2796, name |-> "iPhone_6.7_inch"]
        [] d = "iPhone 6.5\""    -> [width |-> 1242, height |-> 2688, name |-> "iPhone_6.5_inch"]
        [] d = "iPhone 5.5\""    -> [width |-> 1242, height |-> 2208, name |-> "iPhone_5.5_inch"]
        [] d = "iPad Pro 12.9\"" -> [width |-> 2048, height |-> 2732, name |-> "iPad_Pro_12.9_inch"]
        [] d = "iPad Pro 11\""   -> [width |-> 1668, height |-> 2388, name |-> "iPad_Pro_11_inch"] ]

\* Math.round(n / 3) for a non-negative integer n: floor(n/3 + 1/2).
RoundThird(n) == (2 * n + 3) \div 6

deviceScaleFactor == 3

\* The options captureScreenshots passes to browser.newContext.
ContextOptions(deviceSpec) ==
  [ width  |-> RoundThird(deviceSpec.width),
    height |-> RoundThird(deviceSpec.height),
    deviceScaleFactor |-> deviceScaleFactor ]

\* const selectedDevices = deviceList || Object.keys(APP_STORE_DEVICES)
SelectedDevices_EmptyIsAll(deviceList) ==
  IF IsSome(deviceList) /\ Get(deviceList) # <<>> THEN Get(deviceList) ELSE DeviceKeys

SelectedDevices(deviceList) == Get(OrArr(deviceList, Some(DeviceKeys)))

\* The element results.push appends for a device.
ScreenshotResult(deviceType) ==
  [ deviceName |-> deviceType,
    filePath   |-> <<"screenshots", APP_STORE_DEVICES[deviceType].name>>,
    width      |-> APP_STORE_DEVICES[deviceType].width,
    height     |-> APP_STORE_DEVICES[deviceType].height ]

(***************************************************************************)
(* IconGenerationService.buildPrompt.  The prompt is the sequence of the   *)
(* clauses the method appends, in the order it appends them.               *)
(***************************************************************************)
RECURSIVE Join(_, _)
\* Array.prototype.join
Join(arr, sep) ==
  IF arr = <<>> THEN ""
  ELSE IF Len(arr) = 1 THEN arr[1]
  ELSE arr[1] \o sep \o Join(Tail(arr), sep)

\* A destructuring default applies to undefined only.
Default(v, d) == IF v = Undefined THEN d ELSE v

DefaultArr(o, d) == IF IsSome(o) THEN Get(o) ELSE d

NameClause(appName) ==
  "Create a professional, modern app icon for an application called \"" \o appName \o "\". "

DescriptionClause(appDescription) == "The app is about: " \o appDescription \o ". "

CategoryClause(category) == "Category: " \o category \o ". "

ThemesClause(keywords) == "Key themes: " \o Join(keywords, ", ") \o ". "

KnownStyles == {"flat", "3d", "gradient", "minimal"}

StyleSentence(style) ==
  CASE style = "flat"     -> "Use a flat design style with clean shapes and no shadows. "
    [] style = "3d"       -> "Use a 3D style with depth, shadows, and highlights. "
    [] style = "gradient" -> "Use a modern gradient style with smooth color transitions. "
    [] style = "minimal"  -> "Use a minimalist design with simple shapes and limited colors. "

StyleSentences == { StyleSentence(s) : s \in KnownStyles }

ColorClause(primaryColor) == "Primary color scheme should include " \o primaryColor \o ". "

Trailer ==
  << "The icon should be square, centered, with rounded corners suitable for iOS App Store. ",
     "No text or letters should appear in the icon. ",
     "High quality, professional look suitable for the App Store." >>

\* The switch on style: one sentence for a known style, nothing otherwise.
StyleSwitch_FallThrough(style) ==
  IF style = "flat" THEN <<StyleSentence("flat"), StyleSentence("3d")>>
  ELSE IF style \in KnownStyles THEN <<StyleSentence(style)>> ELSE <<>>

StyleSwitch(style) == IF style \in KnownStyles THEN <<StyleSentence(style)>> ELSE <<>>

buildPrompt(options) ==
  LET appName        == options.appName
      appDescription == options.appDescription
      category       == Default(options.category, "general")
      keywords       == DefaultArr(options.keywords, <<>>)
      style          == Default(options.style, "gradient")
      primaryColor   == options.primaryColor
  IN  << NameClause(appName), DescriptionClause(appDescription), CategoryClause(category) >>
      \o (IF Len(keywords) > 0 THEN <<ThemesClause(keywords)>> ELSE <<>>)
      \o StyleSwitch(style)
      \o (IF TruthyStr(primaryColor) THEN <<ColorClause(primaryColor)>> ELSE <<>>)
      \o Trailer

\* What generateIcon returns when the image service and the download succeed.
\* revisedPrompt is whatever the service echoes and is left out.
IconResult(options) ==
  [ filePath |-> <<"icons", options.appName>>, prompt |-> buildPrompt(options) ]

(***************************************************************************)
(* Metadata read from the page.  A meta content attribute is a sequence of *)
(* characters; split(",") and trim() work on the characters.               *)
(***************************************************************************)
RECURSIVE IndexOfComma(_, _)
IndexOfComma(s, from) ==
  IF from > Len(s) THEN 0
  ELSE IF s[from] = "," THEN from ELSE IndexOfComma(s, from + 1)

RECURSIVE SplitComma(_)
\* String.prototype.split(",")
SplitComma(s) ==
  LET k == IndexOfComma(s, 1)
  IN  IF k = 0 THEN <<s>>
      ELSE <<SubSeq(s, 1, k - 1)>> \o SplitComma(SubSeq(s, k + 1, Len(s)))

RECURSIVE TrimStart(_)
TrimStart(s) == IF s # <<>> /\ s[1] = " " THEN TrimStart(Tail(s)) ELSE s

RECURSIVE TrimEnd(_)
TrimEnd(s) ==
  IF s # <<>> /\ s[Len(s)] = " " THEN TrimEnd(SubSeq(s, 1, Len(s) - 1)) ELSE s

\* String.prototype.trim
Trim(s) == TrimEnd(TrimStart(s))

RECURSIVE Str(_)
\* The string made of a sequence of characters.
Str(s) == IF s = <<>> THEN "" ELSE s[1] \o Str(Tail(s))

\* keywords.split(",").map((k) => k.trim())
ParseKeywords(content) ==
  LET parts == SplitComma(content)
  IN  [ k \in 1..Len(parts) |-> Str(Trim(parts[k])) ]

(***************************************************************************)
(* State.                                                                  *)
(***************************************************************************)
VARIABLES
  config,          \* the AppStorePreviewConfig the job was called with
  hasOpenAIKey,    \* !!process.env.OPENAI_API_KEY
  pc,              \* where the job is
  browser,         \* ScreenshotService.browser: "null" or "open"
  launched,        \* browser processes chromium.launch has started
  released,        \* browser processes browser.close() has ended
  openContexts,    \* browsing contexts open in the browser
  contextsOpened,  \* browsing contexts opened so far
  viewport,        \* options of the last newContext of captureScreenshots
  waitForSelector, \* captureScreenshots: options.waitForSelector
  selectedDevices, \* captureScreenshots: the devices the loop visits
  i,               \* captureScreenshots: position of the loop
  results,         \* captureScreenshots: results
  attempted,       \* devices for which newContext has been called
  written,         \* devices whose screenshot file has been written
  screenshots,     \* the job's screenshots, once captureScreenshots returned
  extractedInfo,   \* what extractAppInfo returned
  appInfo,         \* the merged AppInfo
  icon,            \* the job's icon
  iconVariations,  \* the job's iconVariations
  styleIdx,        \* generateIconVariations: position of the loop
  varResults,      \* generateIconVariations: results
  imageCalls,      \* calls of client.images.generate
  iconThrew,       \* an error reached the catch of the icon stage
  thrown,          \* the exception in flight, "none" if none
  result,          \* the AppStorePreviewResult
  manifest,        \* content of manifest.json
  stage,           \* the stage of the job the run has reached
  outcome,         \* "running", "returned" or "threw"
  options,         \* argument of a direct call of buildPrompt or generateIconVariations
  prompt,          \* what the call of buildPrompt returned
  stylesArg,       \* generateIconVariations: the styles argument, None if not passed
  styleCalls,      \* generateIconVariations: styles generateIcon has been called with
  styleOk,         \* generateIconVariations: loop positions whose generateIcon resolved
  client,          \* who calls the services: "job", or "direct" for calls from outside
  calls,           \* direct calls made so far
  lastLifecycle    \* the last initialize() or close() that resolved, "none" if none

jobVars ==
  << config, hasOpenAIKey, pc, browser, launched, released, openContexts, contextsOpened,
     viewport, waitForSelector, selectedDevices, i, results, attempted, written, screenshots, extractedInfo,
     appInfo, icon, iconVariations, styleIdx, varResults, imageCalls, iconThrew, thrown,
     result, manifest, stage, outcome >>

promptVars == << options, prompt >>

callVars == << client, calls, lastLifecycle >>

loopVars == << stylesArg, styleCalls, styleOk >>

vars == << jobVars, promptVars, callVars, loopVars >>

captureVars == << waitForSelector, selectedDevices, i, results, attempted, written, viewport >>

iconVars == << icon, iconVariations, styleIdx, varResults, imageCalls, iconThrew, loopVars >>

browserVars == << browser, launched, released >>

(***************************************************************************)
(* Inputs.                                                                 *)
(***************************************************************************)
RECURSIVE SeqsUpTo(_, _)
\* The sequences over S of length at most n.
SeqsUpTo(S, n) ==
  IF n = 0 THEN { <<>> }
  ELSE LET shorter == SeqsUpTo(S, n - 1)
       IN  shorter \cup { Append(q, x) : q \in shorter, x \in S }

\* The devices of the documented example call.
ListedDevices == { "iPhone 6.7\"", "iPad Pro 12.9\"" }

DeviceLists == { None } \cup { Some(l) : l \in SeqsUpTo(ListedDevices, MaxDevLen) }

CallerNames == { Undefined, "", "Foo" }

CallerDetails ==
  { [description |-> "", category |-> Undefined],
    [description |-> "A fantastic mobile application", category |-> "Productivity"] }

CallerKeywords == { None, Some(<<>>), Some(<<"tools">>) }

IconOptionsChoices ==
  { None,
    Some([style |-> Undefined, primaryColor |-> Undefined, generateVariations |-> FALSE]),
    Some([style |-> "flat", primaryColor |-> "blue", generateVariations |-> TRUE]) }

Configs ==
  [ devices         : DeviceLists,
    name            : CallerNames,
    details         : CallerDetails,
    keywords        : CallerKeywords,
    iconOptions     : IconOptionsChoices ]

\* config.screenshotOptions.waitForSelector, read when captureScreenshots is called.
Selectors == { Undefined, "#app" }

\* What the page can hold: its title, and the content of its two meta tags
\* (None when the tag is missing).
PageTitles == { "", "Bar" }

MetaDescriptions == { Undefined, "", "A page about Bar" }

MetaKeywords == { None, Some(<<>>), Some(<< "a", ",", " ", "b" >>) }

NoInfo == [ name |-> Undefined, description |-> Undefined, keywords |-> None ]

(***************************************************************************)
(* Initial states.                                                         *)
(***************************************************************************)
\* A new ScreenshotService and IconGenerationService, nothing called yet.
Fresh ==
  /\ browser = "null"
  /\ launched = 0
  /\ released = 0
  /\ openContexts = 0
  /\ contextsOpened = 0
  /\ viewport = None
  /\ waitForSelector = Undefined
  /\ selectedDevices = <<>>
  /\ i = 1
  /\ results = <<>>
  /\ attempted = <<>>
  /\ written = <<>>
  /\ screenshots = None
  /\ extractedInfo = NoInfo
  /\ appInfo = None
  /\ icon = None
  /\ iconVariations = None
  /\ styleIdx = 1
  /\ varResults = <<>>
  /\ imageCalls = 0
  /\ iconThrew = FALSE
  /\ thrown = "none"
  /\ result = None
  /\ manifest = None
  /\ stage = "NotStarted"
  /\ outcome = "running"
  /\ stylesArg = None
  /\ styleCalls = <<>>
  /\ styleOk = <<>>
  /\ calls = 0
  /\ lastLifecycle = "none"

JobStart ==
  /\ pc = "start"
  /\ client = "job"
  /\ Fresh

NoPromptCall ==
  /\ options = None
  /\ prompt = None

Init ==
  /\ config \in Configs
  /\ hasOpenAIKey \in BOOLEAN
  /\ JobStart
  /\ NoPromptCall

(***************************************************************************)
(* ScreenshotService.initialize and close, as the job calls them.          *)
(***************************************************************************)
\* this.browser = await chromium.launch(...): the handle is set only if the
\* launch resolves.
Initialize ==
  /\ pc = "start"
  /\ \/ /\ browser' = "open"
        /\ launched' = launched + 1
        /\ stage' = "BrowserReady"
        /\ pc' = "capture"
        /\ UNCHANGED thrown
     \/ /\ thrown' = "launch"
        /\ pc' = "finally"
        /\ UNCHANGED << browser, launched, stage >>
  /\ UNCHANGED << config, hasOpenAIKey, released, openContexts, contextsOpened, captureVars,
                  screenshots, extractedInfo, appInfo, iconVars, result, manifest, outcome,
                  promptVars, callVars >>

\* close(): if (this.browser) { await this.browser.close(); this.browser = null; }
\* Closing the browser closes the contexts still open in it.
Close ==
  /\ IF browser = "open"
     THEN /\ released' = released + 1
          /\ browser' = "null"
          /\ openContexts' = 0
     ELSE UNCHANGED << browser, released, openContexts >>

(***************************************************************************)
(* Where a method of ScreenshotService goes back to: into the job, or to   *)
(* the outside caller, which is then free to make its next call.           *)
(***************************************************************************)
AfterThrow == IF client = "job" THEN "finally" ELSE "idle"

AfterCapture == IF client = "job" THEN "extract" ELSE "idle"

AfterExtract == IF client = "job" THEN "merge" ELSE "idle"

(***************************************************************************)
(* ScreenshotService.captureScreenshots.                                   *)
(***************************************************************************)
othersInCapture ==
  << config, hasOpenAIKey, browserVars, screenshots, extractedInfo, appInfo, iconVars, result,
     manifest, outcome, promptVars, callVars >>

\* The guard on the handle, the destructuring and the choice of the devices.
CaptureEnter ==
  /\ pc = "capture"
  /\ IF browser = "null"
     THEN /\ thrown' = "not initialized"
          /\ pc' = AfterThrow
          /\ UNCHANGED << waitForSelector, selectedDevices, i, results >>
     ELSE /\ waitForSelector' \in Selectors
          /\ selectedDevices' = SelectedDevices(config.devices)
          /\ results' = <<>>
          /\ i' = 1
          /\ pc' = "cap_loop"
          /\ UNCHANGED thrown
  /\ UNCHANGED << attempted, written, viewport, openContexts, contextsOpened, stage >>
  /\ UNCHANGED othersInCapture

\* await this.browser.newContext({viewport, deviceScaleFactor}), outside the try.
CaptureNewContext ==
  /\ pc = "cap_loop"
  /\ i <= Len(selectedDevices)
  /\ attempted' = Append(attempted, selectedDevices[i])
  /\ \/ /\ viewport' = Some(ContextOptions(APP_STORE_DEVICES[selectedDevices[i]]))
        /\ openContexts' = openContexts + 1
        /\ contextsOpened' = contextsOpened + 1
        /\ pc' = "cap_newPage"
        /\ UNCHANGED thrown
     \/ /\ thrown' = "capture: newContext"
        /\ pc' = AfterThrow
        /\ UNCHANGED << viewport, openContexts, contextsOpened >>
  /\ UNCHANGED << waitForSelector, selectedDevices, i, results, written, stage >>
  /\ UNCHANGED othersInCapture

\* await context.newPage(), outside the try.
CaptureNewPage ==
  /\ pc = "cap_newPage"
  /\ \/ /\ pc' = "cap_goto"
        /\ UNCHANGED thrown
     \/ /\ thrown' = "capture: newPage"
        /\ pc' = AfterThrow
  /\ UNCHANGED << captureVars, openContexts, contextsOpened, stage >>
  /\ UNCHANGED othersInCapture

\* await page.goto(url, {waitUntil: "networkidle"}); a rejection goes to the catch.
CaptureGoto ==
  /\ pc = "cap_goto"
  /\ \/ pc' = (IF TruthyStr(waitForSelector) THEN "cap_waitSel" ELSE "cap_settle")
     \/ pc' = "cap_finally"
  /\ UNCHANGED << captureVars, openContexts, contextsOpened, stage, thrown >>
  /\ UNCHANGED othersInCapture

\* await page.waitForSelector(waitForSelector, {timeout: 10000})
CaptureWaitForSelector ==
  /\ pc = "cap_waitSel"
  /\ \/ pc' = "cap_settle"
     \/ pc' = "cap_finally"
  /\ UNCHANGED << captureVars, openContexts, contextsOpened, stage, thrown >>
  /\ UNCHANGED othersInCapture

\* await page.waitForTimeout(waitTime)
CaptureSettle ==
  /\ pc = "cap_settle"
  /\ \/ pc' = "cap_shot"
     \/ pc' = "cap_finally"
  /\ UNCHANGED << captureVars, openContexts, contextsOpened, stage, thrown >>
  /\ UNCHANGED othersInCapture

\* await page.screenshot({path, fullPage}); results.push({...})
CaptureScreenshot ==
  /\ pc = "cap_shot"
  /\ \/ /\ written' = Append(written, selectedDevices[i])
        /\ results' = Append(results, ScreenshotResult(selectedDevices[i]))
     \/ UNCHANGED << written, results >>
  /\ pc' = "cap_finally"
  /\ UNCHANGED << waitForSelector, selectedDevices, i, attempted, viewport, openContexts,
                  contextsOpened, stage, thrown >>
  /\ UNCHANGED othersInCapture

\* finally { await context.close(); } and on to the next device.
CaptureFinally ==
  /\ pc = "cap_finally"
  /\ openContexts' = openContexts - 1
  /\ i' = i + 1
  /\ pc' = "cap_loop"
  /\ UNCHANGED << waitForSelector, selectedDevices, results, attempted, written, viewport,
                  contextsOpened, stage, thrown >>
  /\ UNCHANGED othersInCapture

\* return results, to the job's const screenshots.  The options of the call
\* are gone with it.
CaptureReturn ==
  /\ pc = "cap_loop"
  /\ i > Len(selectedDevices)
  /\ screenshots' = Some(results)
  /\ waitForSelector' = Undefined
  /\ stage' = (IF client = "job" THEN "ScreenshotsCaptured" ELSE stage)
  /\ pc' = AfterCapture
  /\ UNCHANGED << config, hasOpenAIKey, browserVars, selectedDevices, i, results, attempted,
                  written, viewport, openContexts, contextsOpened,
                  extractedInfo, appInfo, iconVars, thrown, result, manifest, outcome,
                  promptVars, callVars >>

(***************************************************************************)
(* ScreenshotService.extractAppInfo.                                       *)
(***************************************************************************)
othersInExtract ==
  << config, hasOpenAIKey, browserVars, captureVars, screenshots, appInfo, iconVars, result,
     manifest, stage, outcome, promptVars, callVars >>

\* The guard on the handle and await this.browser.newContext(), outside the try.
ExtractNewContext ==
  /\ pc = "extract"
  /\ IF browser = "null"
     THEN /\ thrown' = "not initialized"
          /\ pc' = AfterThrow
          /\ UNCHANGED << openContexts, contextsOpened >>
     ELSE \/ /\ openContexts' = openContexts + 1
             /\ contextsOpened' = contextsOpened + 1
             /\ pc' = "ext_newPage"
             /\ UNCHANGED thrown
          \/ /\ thrown' = "extract: newContext"
             /\ pc' = AfterThrow
             /\ UNCHANGED << openContexts, contextsOpened >>
  /\ UNCHANGED extractedInfo
  /\ UNCHANGED othersInExtract

\* await context.newPage(), outside the try.
ExtractNewPage ==
  /\ pc = "ext_newPage"
  /\ \/ /\ pc' = "ext_goto"
        /\ UNCHANGED thrown
     \/ /\ thrown' = "extract: newPage"
        /\ pc' = AfterThrow
  /\ UNCHANGED << openContexts, contextsOpened, extractedInfo >>
  /\ UNCHANGED othersInExtract

\* await page.goto(url, {waitUntil: "networkidle"}): a rejection leaves through
\* the finally.
ExtractGoto ==
  /\ pc = "ext_goto"
  /\ \/ /\ pc' = "ext_read"
        /\ UNCHANGED thrown
     \/ /\ thrown' = "extract: goto"
        /\ pc' = "ext_finally"
  /\ UNCHANGED << openContexts, contextsOpened, extractedInfo >>
  /\ UNCHANGED othersInExtract

\* The Partial<AppInfo> read from a page with the given title and meta contents.
\* name is always set; description and keywords only from a non-empty content.
ReadAppInfo(title, description, keywords) ==
  [ name        |-> title,
    description |-> IF TruthyStr(description) THEN description ELSE Undefined,
    keywords    |-> IF IsSome(keywords) /\ Get(keywords) # <<>>
                    THEN Some(ParseKeywords(Get(keywords))) ELSE None ]

\* page.title() and the two page.$eval(...).catch(() => null)
ExtractRead ==
  /\ pc = "ext_read"
  /\ \/ /\ \E title \in PageTitles, description \in MetaDescriptions, keywords \in MetaKeywords :
             extractedInfo' = ReadAppInfo(title, description, keywords)
        /\ UNCHANGED thrown
     \/ /\ thrown' = "extract: title"
        /\ UNCHANGED extractedInfo
  /\ pc' = "ext_finally"
  /\ UNCHANGED << openContexts, contextsOpened >>
  /\ UNCHANGED othersInExtract

\* finally { await context.close(); } then the return, or the rethrow.
ExtractFinally_Swallow ==
  /\ pc = "ext_finally"
  /\ openContexts' = openContexts - 1
  /\ pc' = "merge"
  /\ UNCHANGED << contextsOpened, extractedInfo, thrown >>
  /\ UNCHANGED othersInExtract

ExtractFinally ==
  /\ pc = "ext_finally"
  /\ openContexts' = openContexts - 1
  /\ pc' = (IF thrown = "none" THEN AfterExtract ELSE AfterThrow)
  /\ UNCHANGED << contextsOpened, extractedInfo, thrown >>
  /\ UNCHANGED othersInExtract

(***************************************************************************)
(* runAppStorePreviewJob: merge of the app info.                           *)
(***************************************************************************)
\* name: config.appInfo.name || extractedInfo.name || "Unknown App"
MergeName_ExtractedFirst(callerName, extractedName) ==
  OrStr(OrStr(extractedName, callerName), "Unknown App")

MergeName(callerName, extractedName) ==
  OrStr(OrStr(callerName, extractedName), "Unknown App")

\* The AppInfo literal of the job.
MergeAppInfo(cfg, extracted, shots) ==
  [ name            |-> MergeName(cfg.name, extracted.name),
    description     |-> OrStr(OrStr(cfg.details.description, extracted.description), ""),
    category        |-> OrStr(cfg.details.category, "General"),
    keywords        |-> Get(OrArr(OrArr(cfg.keywords, extracted.keywords), Some(<<>>))),
    screenshotPaths |-> [ k \in 1..Len(shots) |-> shots[k].filePath ] ]

Merge ==
  /\ pc = "merge"
  /\ appInfo' = Some(MergeAppInfo(config, extractedInfo, Get(screenshots)))
  /\ stage' = "MetadataExtracted"
  /\ pc' = "icon"
  /\ UNCHANGED << config, hasOpenAIKey, browserVars, captureVars, openContexts, contextsOpened,
                  screenshots, extractedInfo, iconVars, thrown, result, manifest, outcome,
                  promptVars, callVars >>

(***************************************************************************)
(* runAppStorePreviewJob: the icon stage, and generateIcon and             *)
(* generateIconVariations as it calls them.                                *)
(***************************************************************************)
othersInIcon ==
  << config, hasOpenAIKey, browserVars, captureVars, openContexts, contextsOpened, screenshots,
     extractedInfo, appInfo, thrown, result, manifest, outcome, promptVars, callVars >>

\* const iconService = hasOpenAIKey ? new IconGenerationService() : null
IconServiceExists(hasKey) == hasKey

\* config.iconOptions?.generateVariations
GenerateVariations(cfg) ==
  IsSome(cfg.iconOptions) /\ Get(cfg.iconOptions).generateVariations

\* The options the job passes: baseIconOptions, the style (?? "gradient") and
\* the primary color, spread in only when it is truthy.
JobIconOptions(cfg, info) ==
  LET style == IF IsSome(cfg.iconOptions) THEN Get(cfg.iconOptions).style ELSE Undefined
      color == IF IsSome(cfg.iconOptions) THEN Get(cfg.iconOptions).primaryColor ELSE Undefined
  IN  [ appName        |-> info.name,
        appDescription |-> info.description,
        category       |-> info.category,
        keywords       |-> Some(info.keywords),
        style          |-> Default(style, "gradient"),
        primaryColor   |-> IF TruthyStr(color) THEN color ELSE Undefined ]

\* styles = ["flat", "gradient", "3d", "minimal"]
DefaultStyles == << "flat", "gradient", "3d", "minimal" >>

\* if (iconService) { try { ... } } else { console.warn(...) }
IconStage ==
  /\ pc = "icon"
  /\ \/ /\ ~IconServiceExists(hasOpenAIKey)
        /\ pc' = "manifest"
        /\ UNCHANGED << stage, styleIdx, varResults, loopVars >>
     \/ /\ IconServiceExists(hasOpenAIKey)
        /\ GenerateVariations(config)
        /\ stage' = "IconAttempted"
        /\ stylesArg' = None
        /\ styleCalls' = <<>>
        /\ styleOk' = <<>>
        /\ styleIdx' = 1
        /\ varResults' = <<>>
        /\ pc' = "var_loop"
     \/ /\ IconServiceExists(hasOpenAIKey)
        /\ ~GenerateVariations(config)
        /\ stage' = "IconAttempted"
        /\ pc' = "gen_single"
        /\ UNCHANGED << styleIdx, varResults, loopVars >>
  /\ UNCHANGED << icon, iconVariations, imageCalls, iconThrew >>
  /\ UNCHANGED othersInIcon

\* icon = await iconService.generateIcon({...}): generateIcon rethrows what the
\* image service, the download or the write throws, and the job catches it.
GenerateSingle_NoCatch ==
  /\ pc = "gen_single"
  /\ imageCalls' = imageCalls + 1
  /\ \/ /\ icon' = Some(IconResult(JobIconOptions(config, Get(appInfo))))
        /\ pc' = "manifest"
        /\ UNCHANGED << iconThrew, thrown >>
     \/ /\ iconThrew' = TRUE
        /\ thrown' = "icon"
        /\ pc' = "finally"
        /\ UNCHANGED icon
  /\ UNCHANGED << iconVariations, styleIdx, varResults, loopVars, stage >>
  /\ UNCHANGED << config, hasOpenAIKey, browserVars, captureVars, openContexts, contextsOpened,
                  screenshots, extractedInfo, appInfo, result, manifest, outcome, promptVars, callVars >>

GenerateSingle ==
  /\ pc = "gen_single"
  /\ imageCalls' = imageCalls + 1
  /\ \/ /\ icon' = Some(IconResult(JobIconOptions(config, Get(appInfo))))
        /\ UNCHANGED iconThrew
     \/ /\ iconThrew' = TRUE
        /\ UNCHANGED icon
  /\ pc' = "manifest"
  /\ UNCHANGED << iconVariations, styleIdx, varResults, loopVars, stage >>
  /\ UNCHANGED othersInIcon

\* The styles the loop of generateIconVariations visits: the argument, or the
\* default of the parameter when none is passed (the job passes none).
LoopStyles == DefaultArr(stylesArg, DefaultStyles)

\* The options generateIconVariations was called with.
LoopOptions == IF client = "job" THEN JobIconOptions(config, Get(appInfo)) ELSE Get(options)

\* One turn of the loop of generateIconVariations: generateIcon({...options, style}),
\* pushed if it resolves, logged if it rejects.
VariationStep_StopOnFailure ==
  /\ pc = "var_loop"
  /\ styleIdx <= Len(LoopStyles)
  /\ imageCalls' = imageCalls + 1
  /\ styleCalls' = Append(styleCalls, LoopStyles[styleIdx])
  /\ \/ /\ varResults' =
             Append(varResults, IconResult([LoopOptions EXCEPT !.style = LoopStyles[styleIdx]]))
        /\ styleOk' = Append(styleOk, styleIdx)
        /\ styleIdx' = styleIdx + 1
     \/ /\ UNCHANGED << varResults, styleOk >>
        /\ styleIdx' = Len(LoopStyles) + 1
  /\ UNCHANGED << icon, iconVariations, iconThrew, stylesArg, stage, pc >>
  /\ UNCHANGED othersInIcon

VariationStep ==
  /\ pc = "var_loop"
  /\ styleIdx <= Len(LoopStyles)
  /\ imageCalls' = imageCalls + 1
  /\ styleCalls' = Append(styleCalls, LoopStyles[styleIdx])
  /\ \/ /\ varResults' =
             Append(varResults, IconResult([LoopOptions EXCEPT !.style = LoopStyles[styleIdx]]))
        /\ styleOk' = Append(styleOk, styleIdx)
     \/ UNCHANGED << varResults, styleOk >>
  /\ styleIdx' = styleIdx + 1
  /\ UNCHANGED << icon, iconVariations, iconThrew, stylesArg, stage, pc >>
  /\ UNCHANGED othersInIcon

\* return results; then icon = iconVariations[0], undefined for an empty array.
VariationsReturn_LastIcon ==
  /\ pc = "var_loop"
  /\ client = "job"
  /\ styleIdx > Len(LoopStyles)
  /\ iconVariations' = Some(varResults)
  /\ icon' = (IF varResults = <<>> THEN None ELSE Some(varResults[Len(varResults)]))
  /\ pc' = "manifest"
  /\ UNCHANGED << styleIdx, varResults, imageCalls, iconThrew, loopVars, stage >>
  /\ UNCHANGED othersInIcon

VariationsReturn ==
  /\ pc = "var_loop"
  /\ client = "job"
  /\ styleIdx > Len(LoopStyles)
  /\ iconVariations' = Some(varResults)
  /\ icon' = (IF varResults = <<>> THEN None ELSE Some(varResults[1]))
  /\ pc' = "manifest"
  /\ UNCHANGED << styleIdx, varResults, imageCalls, iconThrew, loopVars, stage >>
  /\ UNCHANGED othersInIcon

(***************************************************************************)
(* runAppStorePreviewJob: the manifest and the finally.                    *)
(***************************************************************************)
\* The result literal.
JobResult ==
  [ screenshots    |-> Get(screenshots),
    icon           |-> icon,
    iconVariations |-> iconVariations,
    appInfo        |-> Get(appInfo) ]

\* fs.writeFileSync(manifestPath, JSON.stringify(result, null, 2)); return result
WriteManifest ==
  /\ pc = "manifest"
  /\ result' = Some(JobResult)
  /\ \/ /\ manifest' = Some(JobResult)
        /\ stage' = "ManifestWritten"
        /\ UNCHANGED thrown
     \/ /\ thrown' = "manifest"
        /\ UNCHANGED << manifest, stage >>
  /\ pc' = "finally"
  /\ UNCHANGED << config, hasOpenAIKey, browserVars, captureVars, openContexts, contextsOpened,
                  screenshots, extractedInfo, appInfo, iconVars, outcome, promptVars, callVars >>

\* finally { await screenshotService.close(); } and the job returns or throws.
JobFinally_OnSuccessOnly ==
  /\ pc = "finally"
  /\ IF thrown = "none" THEN Close ELSE UNCHANGED << browser, released, openContexts >>
  /\ stage' = "Closed"
  /\ outcome' = (IF thrown = "none" THEN "returned" ELSE "threw")
  /\ pc' = "done"
  /\ UNCHANGED << config, hasOpenAIKey, launched, contextsOpened, captureVars, screenshots,
                  extractedInfo, appInfo, iconVars, thrown, result, manifest, promptVars, callVars >>

JobFinally ==
  /\ pc = "finally"
  /\ Close
  /\ stage' = "Closed"
  /\ outcome' = (IF thrown = "none" THEN "returned" ELSE "threw")
  /\ pc' = "done"
  /\ UNCHANGED << config, hasOpenAIKey, launched, contextsOpened, captureVars, screenshots,
                  extractedInfo, appInfo, iconVars, thrown, result, manifest, promptVars, callVars >>

Next ==
  \/ Initialize
  \/ CaptureEnter
  \/ CaptureNewContext
  \/ CaptureNewPage
  \/ CaptureGoto
  \/ CaptureWaitForSelector
  \/ CaptureSettle
  \/ CaptureScreenshot
  \/ CaptureFinally
  \/ CaptureReturn
  \/ ExtractNewContext
  \/ ExtractNewPage
  \/ ExtractGoto
  \/ ExtractRead
  \/ ExtractFinally
  \/ Merge
  \/ IconStage
  \/ GenerateSingle
  \/ VariationStep
  \/ VariationsReturn
  \/ WriteManifest
  \/ JobFinally

Spec == Init /\ [][Next]_vars

(***************************************************************************)
(* buildPrompt called on its own, over all the shapes of its options.      *)
(***************************************************************************)
PromptOptions ==
  [ appName        : { "Foo", "My App" },
    appDescription : { "A fantastic mobile application" },
    category       : { Undefined, "", "Games" },
    keywords       : { None } \cup { Some(k) : k \in SeqsUpTo({ "tools", "utility" }, MaxKeywords) },
    style          : { Undefined, "neon" } \cup KnownStyles,
    primaryColor   : { Undefined, "", "blue" } ]

JobIdle ==
  /\ config = [ devices |-> None, name |-> "Foo",
                details |-> [description |-> "", category |-> Undefined],
                keywords |-> None, iconOptions |-> None ]
  /\ hasOpenAIKey = FALSE
  /\ JobStart

PromptInit ==
  /\ JobIdle
  /\ options \in { Some(o) : o \in PromptOptions }
  /\ prompt = None

CallBuildPrompt ==
  /\ prompt = None
  /\ prompt' = Some(buildPrompt(Get(options)))
  /\ UNCHANGED << options, jobVars, callVars, loopVars >>

PromptNext == CallBuildPrompt

SpecPrompt == PromptInit /\ [][PromptNext]_vars

(***************************************************************************)
(* ScreenshotService called from outside the job, as the test does: any    *)
(* sequence of initialize, close, captureScreenshots and extractAppInfo    *)
(* on one service, each call made when the one before is over.             *)
(***************************************************************************)
othersInDirect ==
  << config, hasOpenAIKey, contextsOpened, captureVars, screenshots, extractedInfo, appInfo,
     iconVars, result, manifest, stage, outcome, promptVars, client >>

\* The configuration the calls take their options from: the test's device list.
DirectConfig ==
  [ devices |-> Some(<< "iPhone 6.7\"" >>), name |-> "Foo",
    details |-> [description |-> "", category |-> Undefined],
    keywords |-> None, iconOptions |-> None ]

ServiceInit ==
  /\ config = DirectConfig
  /\ hasOpenAIKey = FALSE
  /\ pc = "idle"
  /\ client = "direct"
  /\ Fresh
  /\ NoPromptCall

\* initialize(): this.browser = await chromium.launch(...), whatever the handle
\* held before; a launch that rejects leaves the handle as it was.
DirectInitialize ==
  /\ client = "direct"
  /\ pc = "idle"
  /\ calls < MaxCalls
  /\ calls' = calls + 1
  /\ \/ /\ browser' = "open"
        /\ launched' = launched + 1
        /\ lastLifecycle' = "initialize"
        /\ thrown' = "none"
     \/ /\ thrown' = "launch"
        /\ UNCHANGED << browser, launched, lastLifecycle >>
  /\ UNCHANGED << pc, released, openContexts >>
  /\ UNCHANGED othersInDirect

\* close()
DirectClose ==
  /\ client = "direct"
  /\ pc = "idle"
  /\ calls < MaxCalls
  /\ calls' = calls + 1
  /\ Close
  /\ lastLifecycle' = "close"
  /\ thrown' = "none"
  /\ UNCHANGED << pc, launched >>
  /\ UNCHANGED othersInDirect

\* A call of captureScreenshots begins.
DirectCaptureScreenshots ==
  /\ client = "direct"
  /\ pc = "idle"
  /\ calls < MaxCalls
  /\ calls' = calls + 1
  /\ pc' = "capture"
  /\ thrown' = "none"
  /\ UNCHANGED << browserVars, openContexts, lastLifecycle >>
  /\ UNCHANGED othersInDirect

\* A call of extractAppInfo begins.
DirectExtractAppInfo ==
  /\ client = "direct"
  /\ pc = "idle"
  /\ calls < MaxCalls
  /\ calls' = calls + 1
  /\ pc' = "extract"
  /\ thrown' = "none"
  /\ UNCHANGED << browserVars, openContexts, lastLifecycle >>
  /\ UNCHANGED othersInDirect

ServiceNext ==
  \/ DirectInitialize
  \/ DirectClose
  \/ DirectCaptureScreenshots
  \/ DirectExtractAppInfo
  \/ CaptureEnter
  \/ CaptureNewContext
  \/ CaptureNewPage
  \/ CaptureGoto
  \/ CaptureWaitForSelector
  \/ CaptureSettle
  \/ CaptureScreenshot
  \/ CaptureFinally
  \/ CaptureReturn
  \/ ExtractNewContext
  \/ ExtractNewPage
  \/ ExtractGoto
  \/ ExtractRead
  \/ ExtractFinally

SpecService == ServiceInit /\ [][ServiceNext]_vars

(***************************************************************************)
(* generateIconVariations called from outside the job, with any styles     *)
(* argument.                                                               *)
(***************************************************************************)
\* The styles an outside caller lists.
ListedStyles == { "flat", "3d", "minimal" }

StyleArgs == { None } \cup { Some(l) : l \in SeqsUpTo(ListedStyles, MaxStyles) }

VariationOptions ==
  { o \in PromptOptions :
      /\ o.appName = "Foo"
      /\ o.category = "Games"
      /\ o.keywords = None
      /\ o.style \in { Undefined, "3d" }
      /\ o.primaryColor = Undefined }

VariationsInit ==
  /\ config = DirectConfig
  /\ hasOpenAIKey = TRUE
  /\ pc = "idle"
  /\ client = "direct"
  /\ Fresh
  /\ NoPromptCall

\* generateIconVariations(options, styles) begins: const results = []
DirectGenerateIconVariations ==
  /\ client = "direct"
  /\ pc = "idle"
  /\ calls < MaxCalls
  /\ calls' = calls + 1
  /\ options' \in { Some(o) : o \in VariationOptions }
  /\ stylesArg' \in StyleArgs
  /\ styleCalls' = <<>>
  /\ styleOk' = <<>>
  /\ styleIdx' = 1
  /\ varResults' = <<>>
  /\ iconVariations' = None
  /\ thrown' = "none"
  /\ pc' = "var_loop"
  /\ UNCHANGED << config, hasOpenAIKey, browserVars, openContexts, contextsOpened, captureVars,
                  screenshots, extractedInfo, appInfo, icon, imageCalls, iconThrew, result,
                  manifest, stage, outcome, prompt, client, lastLifecycle >>

\* return results, to the caller
DirectVariationsReturn ==
  /\ pc = "var_loop"
  /\ client = "direct"
  /\ styleIdx > Len(LoopStyles)
  /\ iconVariations' = Some(varResults)
  /\ pc' = "idle"
  /\ UNCHANGED << icon, styleIdx, varResults, imageCalls, iconThrew, loopVars, stage >>
  /\ UNCHANGED << config, hasOpenAIKey, browserVars, captureVars, openContexts, contextsOpened,
                  screenshots, extractedInfo, appInfo, thrown, result, manifest, outcome,
                  promptVars, callVars >>

VariationsNext ==
  \/ DirectGenerateIconVariations
  \/ VariationStep
  \/ DirectVariationsReturn

SpecVariations == VariationsInit /\ [][VariationsNext]_vars

(***************************************************************************)
(* Properties.                                                             *)
(***************************************************************************)
\* Where captureScreenshots holds a context it has opened.
CaptureHoldsContext ==
  pc \in { "cap_newPage", "cap_goto", "cap_waitSel", "cap_settle", "cap_shot", "cap_finally" }

\* Where extractAppInfo holds a context it has opened.
ExtractHoldsContext == pc \in { "ext_newPage", "ext_goto", "ext_read", "ext_finally" }

InCapture == pc = "cap_loop" \/ CaptureHoldsContext

Falsy(s) == s = Undefined \/ s = ""

DeviceNames(shots) == [ k \in 1..Len(shots) |-> shots[k].deviceName ]

IsPrefix(a, b) == Len(a) <= Len(b) /\ a = SubSeq(b, 1, Len(a))

\* C1: the job launches the browser at most once, and whenever the job has
\* ended, by a return or by a throw of any stage, the service holds no handle
\* and every browser it launched has been closed, exactly once.
C1_BrowserReleased ==
  /\ launched <= 1
  /\ released <= launched
  /\ (browser = "open") <=> (launched = 1 /\ released = 0)
  /\ pc = "done" => (browser = "null" /\ released = launched)

\* A job that threw in the metadata stage after the browser had started, and
\* has released it.
C1_Witness ==
  /\ pc = "done"
  /\ outcome = "threw"
  /\ thrown = "extract: goto"
  /\ launched = 1
  /\ released = 1
  /\ browser = "null"

\* C2: captureScreenshots never throws for a failure of one device (context or
\* page setup included): it visits every selected device and returns one
\* result per device whose screenshot was written, in order.
C2_PerDeviceFailureIsolated ==
  /\ thrown \notin { "capture: newContext", "capture: newPage" }
  /\ IsSome(screenshots) =>
       /\ attempted = selectedDevices
       /\ DeviceNames(Get(screenshots)) = written

\* C3: at most one browsing context is open at any time, and none is open
\* outside the part of captureScreenshots or extractAppInfo that holds it.
C3_ContextsScoped ==
  /\ openContexts <= 1
  /\ ~(CaptureHoldsContext \/ ExtractHoldsContext) => openContexts = 0

\* C4: the job throws only when the browser failed to start or when the
\* navigation of the metadata extraction failed.
C4_OnlyTwoFatalCases ==
  outcome = "threw" => thrown \in { "launch", "extract: goto" }

\* C5: without a credential the image service is never called and icon and
\* iconVariations stay absent, in the job and in its result; with one, an error
\* of the icon stage never leaves the job: the job goes on to the manifest with
\* no icon, and if it returns the manifest holds the result, without an icon.
C5_IconStageContained ==
  /\ thrown # "icon"
  /\ ~hasOpenAIKey =>
       /\ imageCalls = 0
       /\ icon = None
       /\ iconVariations = None
       /\ IsSome(result) => (Get(result).icon = None /\ Get(result).iconVariations = None)
  /\ iconThrew =>
       /\ hasOpenAIKey
       /\ icon = None
       /\ pc \in { "manifest", "finally", "done" }
       /\ outcome = "threw" => thrown = "manifest"
       /\ outcome = "returned" => (IsSome(manifest) /\ manifest = result /\ Get(result).icon = None)

\* A job whose generateIcon threw and that returned with its manifest written.
C5_Witness ==
  /\ iconThrew
  /\ outcome = "returned"
  /\ IsSome(manifest)
  /\ Get(manifest).icon = None
  /\ imageCalls = 1

StageSteps ==
  { << "NotStarted", "BrowserReady" >>,
    << "BrowserReady", "ScreenshotsCaptured" >>,
    << "ScreenshotsCaptured", "MetadataExtracted" >>,
    << "MetadataExtracted", "IconAttempted" >>,
    << "MetadataExtracted", "ManifestWritten" >>,
    << "IconAttempted", "ManifestWritten" >> }

\* C6: the stage only moves one step forward along NotStarted, BrowserReady,
\* ScreenshotsCaptured, MetadataExtracted, IconAttempted (which may be skipped),
\* ManifestWritten, or to Closed, which it never leaves; once a stage has thrown
\* the only move is to Closed; the manifest is written only in the step into
\* ManifestWritten, after capture and metadata and with the browser still held;
\* and a job closed from any other stage has written no manifest.
C6_LinearStages ==
  [][ /\ stage' # stage => (stage' = "Closed" /\ stage # "Closed") \/ << stage, stage' >> \in StageSteps
      /\ (thrown # "none" /\ stage' # stage) => stage' = "Closed"
      /\ manifest' # manifest =>
           /\ stage \in { "MetadataExtracted", "IconAttempted" }
           /\ stage' = "ManifestWritten"
           /\ browser = "open"
           /\ IsSome(screenshots)
           /\ IsSome(appInfo)
      /\ (stage' = "Closed" /\ stage \notin { "ManifestWritten", "Closed" }) => manifest' = None
    ]_vars

\* A job that went through every stage, the icon stage included.
C6_Witness ==
  /\ stage = "Closed"
  /\ IsSome(manifest)
  /\ imageCalls > 0
  /\ outcome = "returned"

\* C7: the merged name is the caller's name when that is non-empty, else the
\* extracted name when that is non-empty, else "Unknown App".
C7_NameMerge ==
  IsSome(appInfo) =>
    LET caller    == config.name
        extracted == extractedInfo.name
        merged    == Get(appInfo).name
    IN  /\ ~Falsy(caller) => merged = caller
        /\ (Falsy(caller) /\ ~Falsy(extracted)) => merged = extracted
        /\ (Falsy(caller) /\ Falsy(extracted)) => merged = "Unknown App"

\* An empty caller name merged with the page's title.
C7_Witness ==
  /\ IsSome(appInfo)
  /\ config.name = ""
  /\ extractedInfo.name = "Bar"
  /\ Get(appInfo).name = "Bar"

\* C8: with no device list the loop of captureScreenshots visits the five
\* catalog devices in catalog order; with an empty list it visits none, opens
\* no context and returns an empty result without an error.  The devices
\* attempted are always the first ones of the selection, and all of it once
\* captureScreenshots has returned.
C8_DeviceSelection ==
  /\ ((InCapture \/ IsSome(screenshots)) /\ config.devices = None) =>
       selectedDevices =
         << "iPhone 6.7\"", "iPhone 6.5\"", "iPhone 5.5\"", "iPad Pro 12.9\"", "iPad Pro 11\"" >>
  /\ IsPrefix(attempted, selectedDevices)
  /\ IsSome(screenshots) => attempted = selectedDevices
  /\ config.devices = Some(<<>>) =>
       /\ attempted = <<>>
       /\ thrown \notin { "capture: newContext", "capture: newPage" }
       /\ (InCapture \/ pc = "extract") => contextsOpened = 0
       /\ IsSome(screenshots) => Get(screenshots) = <<>>

\* captureScreenshots has returned from a call with an empty device list.
C8_Witness ==
  /\ config.devices = Some(<<>>)
  /\ pc = "extract"
  /\ IsSome(screenshots)
  /\ Get(screenshots) = <<>>
  /\ thrown = "none"

\* C9: the raster of every context captureScreenshots opens, the viewport times
\* the scale factor, is the nominal width and height of its device, which are
\* the width and height of the device's result.
C9_RasterIsNominal ==
  (CaptureHoldsContext /\ IsSome(viewport)) =>
    LET deviceSpec == APP_STORE_DEVICES[selectedDevices[i]]
        v          == Get(viewport)
    IN  /\ v.deviceScaleFactor * v.width = deviceSpec.width
        /\ v.deviceScaleFactor * v.height = deviceSpec.height
        /\ ScreenshotResult(selectedDevices[i]).width = v.deviceScaleFactor * v.width
        /\ ScreenshotResult(selectedDevices[i]).height = v.deviceScaleFactor * v.height

ThemesSentences ==
  { ThemesClause(k) : k \in SeqsUpTo({ "tools", "utility" }, MaxKeywords) \ { <<>> } }

ColorSentences == { ColorClause(c) : c \in { Undefined, "", "blue" } }

\* C10: the prompt starts with the clause naming the app in double quotes, then
\* the description and the category; it holds exactly one style sentence, that
\* of the style, when the style (gradient when absent) is one of the four, and
\* none otherwise; it holds the primary-color sentence exactly when
\* primaryColor is supplied and non-empty; the clauses it holds stand in the
\* order name, description, category, key themes, style, primary color, and
\* the three sentences of the trailer end it.
C10_PromptShape ==
  IsSome(prompt) =>
    LET o      == Get(options)
        p      == Get(prompt)
        style  == IF o.style = Undefined THEN "gradient" ELSE o.style
        themes == { k \in 1..Len(p) : p[k] \in ThemesSentences }
        styles == { k \in 1..Len(p) : p[k] \in StyleSentences }
        colors == { k \in 1..Len(p) : p[k] \in ColorSentences }
    IN  /\ p[1] = "Create a professional, modern app icon for an application called \""
                    \o o.appName \o "\". "
        /\ p[2] = "The app is about: " \o o.appDescription \o ". "
        /\ \E c \in { "general", "", "Games" } : p[3] = "Category: " \o c \o ". "
        /\ style \in { "flat", "3d", "gradient", "minimal" } =>
             /\ Cardinality(styles) = 1
             /\ \A k \in styles : p[k] = StyleSentence(style)
        /\ style \notin { "flat", "3d", "gradient", "minimal" } => styles = {}
        /\ (colors # {}) <=> (o.primaryColor # Undefined /\ o.primaryColor # "")
        /\ Cardinality(colors) <= 1
        /\ \A k \in colors : p[k] = "Primary color scheme should include " \o o.primaryColor \o ". "
        /\ Cardinality(themes) <= 1
        /\ \A t \in themes : t = 4
        /\ \A k \in styles : k > 3 /\ \A t \in themes : t < k
        /\ \A k \in colors : k > 3 /\ (\A t \in themes : t < k) /\ (\A j \in styles : j < k)
        /\ Len(p) = 6 + Cardinality(themes) + Cardinality(styles) + Cardinality(colors)
        /\ SubSeq(p, Len(p) - 2, Len(p)) = Trailer

\* A prompt with every clause: key themes, a style of the four, a color.
C10_Witness ==
  /\ IsSome(prompt)
  /\ Get(options).style = "flat"
  /\ Get(options).primaryColor = "blue"
  /\ Get(options).keywords = Some(<< "tools", "utility" >>)
  /\ Len(Get(prompt)) = 9
  /\ Get(prompt)[5] = "Use a flat design style with clean shapes and no shadows. "

\* C12: the prompt holds "Category: general." when the category is absent or
\* the empty string, and "Category: {category}." with the value given otherwise.
C12_CategoryDefault ==
  IsSome(prompt) =>
    LET category == Get(options).category
        p        == Get(prompt)
        expected == IF category = Undefined \/ category = ""
                    THEN "Category: general. "
                    ELSE "Category: " \o category \o ". "
    IN  \E k \in 1..Len(p) : p[k] = expected

NonEmptyList(o) == IsSome(o) /\ Get(o) # <<>>

\* C13: the merged keywords are the caller's when the caller gave a non-empty
\* list; else the keywords read from the page when there are any; else the
\* empty list.
C13_KeywordsMerge ==
  IsSome(appInfo) =>
    LET caller    == config.keywords
        extracted == extractedInfo.keywords
        merged    == Get(appInfo).keywords
    IN  /\ NonEmptyList(caller) => merged = Get(caller)
        /\ (~NonEmptyList(caller) /\ NonEmptyList(extracted)) => merged = Get(extracted)
        /\ (~NonEmptyList(caller) /\ ~NonEmptyList(extracted)) => merged = <<>>

Increasing(q) == \A a, b \in 1..Len(q) : a < b => q[a] < q[b]

HasClause(p, clause) == \E k \in 1..Len(p) : p[k] = clause

\* C14: in a job with a credential and generateVariations, once the icon stage
\* is over iconVariations is present and holds one result per style that
\* succeeded, in the order flat, gradient, 3d, minimal; icon is its first
\* element, the result of the first style that succeeded, and is present
\* exactly when iconVariations is not empty; when every style failed
\* iconVariations is the empty sequence and icon is absent, and in no case has
\* the icon stage thrown; the result carries both.
C14_IconIsFirstVariation ==
  (hasOpenAIKey /\ GenerateVariations(config) /\ pc \in { "manifest", "finally", "done" }
     /\ stage \in { "IconAttempted", "ManifestWritten", "Closed" } /\ IsSome(appInfo)) =>
    LET order == << "flat", "gradient", "3d", "minimal" >>
    IN  /\ IsSome(iconVariations)
        /\ Len(Get(iconVariations)) = Len(styleOk)
        /\ Increasing(styleOk)
        /\ \A k \in 1..Len(styleOk) :
             HasClause(Get(iconVariations)[k].prompt, StyleSentence(order[styleOk[k]]))
        /\ (icon # None) <=> (Get(iconVariations) # <<>>)
        /\ icon # None =>
             /\ Get(icon) = Get(iconVariations)[1]
             /\ HasClause(Get(icon).prompt, StyleSentence(order[styleOk[1]]))
        /\ styleOk = <<>> => (Get(iconVariations) = <<>> /\ icon = None)
        /\ ~iconThrew
        /\ thrown \in { "none", "manifest" }
        /\ IsSome(result) =>
             (Get(result).icon = icon /\ Get(result).iconVariations = iconVariations)

\* A job that asked for the flat style, whose flat variation failed and whose
\* icon is the gradient one, the first of the two that succeeded.
C14_Witness ==
  /\ outcome = "returned"
  /\ hasOpenAIKey
  /\ GenerateVariations(config)
  /\ Get(config.iconOptions).style = "flat"
  /\ styleOk = << 2, 4 >>
  /\ Get(result).icon = Some(Get(Get(result).iconVariations)[1])
  /\ HasClause(Get(Get(result).icon).prompt,
               "Use a modern gradient style with smooth color transitions. ")

\* C11: generateIconVariations never throws; it calls generateIcon once per
\* style, in the order of the styles list (flat, gradient, 3d, minimal when no
\* list is passed), whether or not an earlier style failed; and it returns one
\* result per style that succeeded, in that order.
C11_VariationsPerStyle ==
  LET expected == IF stylesArg = None
                  THEN << "flat", "gradient", "3d", "minimal" >>
                  ELSE Get(stylesArg)
  IN  /\ thrown = "none"
      /\ pc = "var_loop" => styleCalls = SubSeq(expected, 1, styleIdx - 1)
      /\ Increasing(styleOk)
      /\ \A k \in 1..Len(styleOk) : styleOk[k] \in 1..Len(styleCalls)
      /\ (pc = "idle" /\ IsSome(iconVariations)) =>
           /\ styleCalls = expected
           /\ Len(Get(iconVariations)) = Len(styleOk)
           /\ \A k \in 1..Len(styleOk) :
                HasClause(Get(iconVariations)[k].prompt, StyleSentence(expected[styleOk[k]]))

\* A call whose second style failed and whose third was still generated.
C11_Witness ==
  /\ pc = "idle"
  /\ stylesArg = Some(<< "3d", "flat", "minimal" >>)
  /\ styleCalls = << "3d", "flat", "minimal" >>
  /\ styleOk = << 1, 3 >>
  /\ IsSome(iconVariations)
  /\ Len(Get(iconVariations)) = 2
  /\ HasClause(Get(iconVariations)[2].prompt,
               "Use a minimalist design with simple shapes and limited colors. ")

\* C15: on one service, whatever the calls made: the service holds a handle
\* exactly when the last initialize() or close() that resolved was an
\* initialize(); captureScreenshots and extractAppInfo run only with a handle
\* and otherwise fail with "not initialized" before opening a context; and once
\* close() was the last of them no browser the service launched is unreleased.
C15_ServiceLifecycle ==
  /\ (browser = "open") <=> (lastLifecycle = "initialize")
  /\ (InCapture \/ ExtractHoldsContext) => browser = "open"
  /\ thrown = "not initialized" => (browser = "null" /\ pc = "idle")
  /\ (pc = "idle" /\ lastLifecycle = "close") => (browser = "null" /\ released = launched)

====
